---- MODULE Spec2Model ----
(***************************************************************************)
(* Model of the metadata controller of the cluster agent                   *)
(* (pkg/util/kubernetes/apiserver, src/unnamed/part_000): the work queue   *)
(* fed by the endpoints informer, the worker loops, the reconciler         *)
(* (mapService / mapDeletedService) and the read path GetPodMetadataNames  *)
(* over the TTL cache of per-node MetadataMapperBundles.                   *)
(***************************************************************************)
EXTENDS Naturals, Sequences, FiniteSets, TLC

(***************************************************************************)
(* Program constants and the bounds of the model.                          *)
(***************************************************************************)
maxRetries == 15
numWorkers == 2

\* Longest address list of an endpoint object the environment produces.
MaxAddrs == 2

Nodes == {"node1", "node2"}
Pods == {"podA", "podB"}
Namespaces == {"foo", "bar"}

\* The (namespace, name) identities of the endpoint objects of the cluster.
EndpointsIds ==
    { [Namespace |-> "foo", Name |-> "svc1"],
      [Namespace |-> "foo", Name |-> "svc2"],
      [Namespace |-> "bar", Name |-> "svc1"] }

(***************************************************************************)
(* Endpoint objects.  An address carries an optional TargetRef (nil is     *)
(* isNil = TRUE) and an optional NodeName, a pointer to a string: <<>> is  *)
(* nil, <<n>> points to n.  The subsets of an object are flattened into   *)
(* the one sequence the nested loops of mapService visit.                  *)
(***************************************************************************)
NilRef == [isNil |-> TRUE, Kind |-> "", Namespace |-> "", Name |-> ""]

PodRef(ns, pod) == [isNil |-> FALSE, Kind |-> "Pod", Namespace |-> ns, Name |-> pod]

PodAddress(node, ns, pod) == [TargetRef |-> PodRef(ns, pod), NodeName |-> <<node>>]

\* The addresses mapService has to ignore, one of each kind.
IgnoredAddresses(ns) ==
    { [TargetRef |-> NilRef, NodeName |-> <<"node1">>],
      [TargetRef |-> [isNil |-> FALSE, Kind |-> "Node", Namespace |-> ns, Name |-> "podA"],
       NodeName |-> <<"node1">>],
      [TargetRef |-> PodRef(ns, ""), NodeName |-> <<"node1">>],
      [TargetRef |-> PodRef("", "podA"), NodeName |-> <<"node1">>],
      [TargetRef |-> PodRef(ns, "podA"), NodeName |-> <<>>] }

\* The pods an endpoint object of namespace ns points to live in ns.
AddressSet(ns) ==
    { PodAddress(n, ns, p) : n \in Nodes, p \in Pods } \cup IgnoredAddresses(ns)

SeqsUpTo(S, n) == UNION { [1..k -> S] : k \in 0..n }

EndpointsOf(id) ==
    { [Namespace |-> id.Namespace, Name |-> id.Name, Addresses |-> a] :
        a \in SeqsUpTo(AddressSet(id.Namespace), MaxAddrs) }

(***************************************************************************)
(* Finite maps (Go maps): functions whose domain is the set of keys        *)
(* present.                                                                *)
(***************************************************************************)
EmptyMap == [x \in {} |-> {}]

MapPut(f, k, v) == [x \in DOMAIN f \cup {k} |-> IF x = k THEN v ELSE f[x]]

MapRemove(f, k) == [x \in DOMAIN f \ {k} |-> f[x]]

(***************************************************************************)
(* ServicesMapper: namespace -> pod name -> set of service names.          *)
(***************************************************************************)
\* ServicesMapper.Set: merge svc into the pod's set, creating the entries.
MapperSet(m, namespace, podName, svc) ==
    LET pods == IF namespace \in DOMAIN m THEN m[namespace] ELSE EmptyMap
        svcs == IF podName \in DOMAIN pods THEN pods[podName] ELSE {}
    IN  MapPut(m, namespace, MapPut(pods, podName, svcs \cup {svc}))

\* ServicesMapper.Delete: remove svc from every pod of the namespace and
\* prune the pods, and the namespace, left empty.
MapperDelete(m, namespace, svc) ==
    IF namespace \notin DOMAIN m THEN m
    ELSE LET pods == m[namespace]
             kept == { p \in DOMAIN pods : pods[p] \ {svc} # {} }
             left == [p \in kept |-> pods[p] \ {svc}]
         IN  IF kept = {} THEN MapRemove(m, namespace)
             ELSE MapPut(m, namespace, left)

\* ServicesMapper.Get under the bundle's read lock: (services, found).
ServicesForPod(m, ns, podName) ==
    IF ns \in DOMAIN m /\ podName \in DOMAIN m[ns]
    THEN [services |-> m[ns][podName], found |-> TRUE]
    ELSE [services |-> {}, found |-> FALSE]

(***************************************************************************)
(* State.  The agent cache holds, per node, a pointer to a                 *)
(* MetadataMapperBundle; heap gives the Services mapper of each bundle     *)
(* object.  A bundle no one points to any more is collected (its slot is   *)
(* reset to the empty mapper).  age[n] is the time since the last          *)
(* Cache.Set of the node's entry, in resync periods (the entry expires     *)
(* after metadataMapExpire, two resync periods); guard[b] is the holder of *)
(* the lock m of bundle b.                                                  *)
(***************************************************************************)
VARIABLES cache, heap, age, guard

cacheVars == <<cache, heap, age, guard>>

(***************************************************************************)
(* store is the endpoints informer's local store (what endpointsLister     *)
(* reads), over the endpoint objects of the watched cluster.  queue,       *)
(* dirty, processing and shuttingDown are the work queue; failures and     *)
(* waiting its rate limiter (requeue counts, keys waiting for their        *)
(* delayed add).  faulty tells whether the listers of this environment     *)
(* can fail (a property of the environment: it never changes).             *)
(***************************************************************************)
VARIABLES store, faulty, queue, dirty, processing, shuttingDown, failures, waiting

queueVars == <<queue, dirty, processing, shuttingDown, failures, waiting>>

(***************************************************************************)
(* workers[w] is the position and the locals of worker goroutine w; runpc  *)
(* the position of Run; the two synced flags what the informers' HasSynced *)
(* report; stopCh whether the stop channel is closed.                      *)
(***************************************************************************)
VARIABLES workers, runpc, nodeListerSynced, endpointsListerSynced, stopCh

runVars == <<runpc, nodeListerSynced, endpointsListerSynced, stopCh>>

(***************************************************************************)
(* reader is a caller of the read path GetPodMetadataNames (the API        *)
(* handler): its position and the bundle it got from the cache.            *)
(***************************************************************************)
VARIABLES reader

vars == <<cache, heap, age, guard, store, faulty, queue, dirty, processing,
          shuttingDown, failures, waiting, workers, runpc, nodeListerSynced,
          endpointsListerSynced, stopCh, reader>>

controllerVars == <<store, faulty, queueVars, workers, runVars, reader>>

NoBundle == 0

\* The TTL of a cache entry, metadataMapExpire, in resync periods: the
\* informer resyncs every metadataMapExpire/2 (line 59).
TtlPeriods == 2

\* guard[b] of a lock no one holds; the holders are the workers and Reader.
Unlocked == 0

Reader == numWorkers + 1

\* One slot per cache entry and one per worker holding a bundle not cached.
BundleIds == 1..(Cardinality(Nodes) + numWorkers)

NodeSlot(nodeName) == IF nodeName = "node1" THEN 1 ELSE 2

\* The bundle objects reachable from the cache or from a worker's local.
Live(c, held) == { c[n] : n \in Nodes } \cup held

Collect(c, h, held) ==
    [b \in BundleIds |-> IF b \in Live(c, held) THEN h[b] ELSE EmptyMap]

\* newMetadataMapperBundle(): a fresh object; the node's own slot if free.
newMetadataMapperBundle(c, held, nodeName) ==
    LET free == BundleIds \ Live(c, held)
    IN  IF NodeSlot(nodeName) \in free THEN NodeSlot(nodeName)
        ELSE CHOOSE b \in free : \A x \in free : b <= x

(***************************************************************************)
(* mapService, lines 174-203: the transient node -> namespace -> pod name  *)
(* map built from the addresses of the object.                              *)
(***************************************************************************)
\* IgnoredAddress without the test of the target's kind.
IgnoredAddressKindUnchecked(address) ==
    \/ address.TargetRef.isNil
    \/ address.TargetRef.Name = "" \/ address.TargetRef.Namespace = ""
    \/ address.NodeName = <<>>

IgnoredAddress(address) ==
    \/ address.TargetRef.isNil
    \/ address.TargetRef.Kind # "Pod"
    \/ address.TargetRef.Name = "" \/ address.TargetRef.Namespace = ""
    \/ address.NodeName = <<>>

RECURSIVE nodeToPodsFrom(_, _)
nodeToPodsFrom(addresses, acc) ==
    IF addresses = <<>> THEN acc
    ELSE LET address == Head(addresses)
         IN  IF IgnoredAddress(address)
             THEN nodeToPodsFrom(Tail(addresses), acc)
             ELSE LET nodeName == address.NodeName[1]
                      pods == IF nodeName \in DOMAIN acc THEN acc[nodeName]
                              ELSE EmptyMap
                      namespace == address.TargetRef.Namespace
                      podName == address.TargetRef.Name
                  IN  nodeToPodsFrom(Tail(addresses),
                          MapPut(acc, nodeName, MapPut(pods, namespace, podName)))

\* nodeToPods keeping the first pod of a node and namespace, not the last.
nodeToPodsFirstWins(endpoints) ==
    LET a == endpoints.Addresses
    IN  nodeToPodsFrom([i \in 1..Len(a) |-> a[Len(a) + 1 - i]], EmptyMap)

nodeToPods(endpoints) == nodeToPodsFrom(endpoints.Addresses, EmptyMap)

(***************************************************************************)
(* mapService, lines 205-222: one iteration of the loop over nodeToPods.   *)
(***************************************************************************)
\* getMetadataMapBundle, or a new bundle when the cache has none (207-211).
GetOrNewBundle(c, held, nodeName) ==
    IF c[nodeName] # NoBundle THEN c[nodeName]
    ELSE newMetadataMapperBundle(c, held, nodeName)

\* Lines 213-217, under the bundle's lock: Services.Set for every pair.
RECURSIVE SetServices(_, _, _)
SetServices(m, pods, svc) ==
    IF DOMAIN pods = {} THEN m
    ELSE LET namespace == CHOOSE ns \in DOMAIN pods : TRUE
         IN  SetServices(MapperSet(m, namespace, pods[namespace], svc),
                         MapRemove(pods, namespace), svc)

\* The whole iteration for one node: get or create, set, Cache.Set.
MapNode(st, nodeName, pods, svc) ==
    LET b == GetOrNewBundle(st.cache, {}, nodeName)
    IN  [cache |-> [st.cache EXCEPT ![nodeName] = b],
         heap |-> [st.heap EXCEPT ![b] = SetServices(st.heap[b], pods, svc)],
         age |-> [st.age EXCEPT ![nodeName] = 0]]

RECURSIVE MapNodes(_, _, _)
MapNodes(st, todo, svc) ==
    IF DOMAIN todo = {} THEN st
    ELSE LET nodeName == CHOOSE n \in DOMAIN todo : TRUE
         IN  MapNodes(MapNode(st, nodeName, todo[nodeName], svc),
                      MapRemove(todo, nodeName), svc)

\* mapService run to completion on the cache state st.
mapServiceResult(st, endpoints) ==
    MapNodes(st, nodeToPods(endpoints), endpoints.Name)

(***************************************************************************)
(* mapDeletedService, lines 227-248.  nodes is what nodeLister.List        *)
(* returned, in its order.                                                 *)
(***************************************************************************)
\* DeleteFromNode deleting the service whatever the namespace of the pods.
DeleteFromNodeAnyNamespace(st, nodeName, namespace, svc) ==
    LET b == st.cache[nodeName]
        RECURSIVE DeleteIn(_, _)
        DeleteIn(m, todo) ==
            IF todo = {} THEN m
            ELSE LET ns == CHOOSE x \in todo : TRUE
                 IN  DeleteIn(MapperDelete(m, ns, svc), todo \ {ns})
    IN  [cache |-> [st.cache EXCEPT ![nodeName] = b],
         heap |-> [st.heap EXCEPT ![b] = DeleteIn(st.heap[b], DOMAIN st.heap[b])],
         age |-> [st.age EXCEPT ![nodeName] = 0]]

\* DeleteFromNode removing the service and keeping the entries left empty.
DeleteFromNodeNoPrune(st, nodeName, namespace, svc) ==
    LET b == st.cache[nodeName]
        m == st.heap[b]
        left == IF namespace \notin DOMAIN m THEN m
                ELSE MapPut(m, namespace,
                            [p \in DOMAIN m[namespace] |-> m[namespace][p] \ {svc}])
    IN  [cache |-> [st.cache EXCEPT ![nodeName] = b],
         heap |-> [st.heap EXCEPT ![b] = left],
         age |-> [st.age EXCEPT ![nodeName] = 0]]

\* Lines 239-245 for one node that has a bundle.
DeleteFromNode(st, nodeName, namespace, svc) ==
    LET b == st.cache[nodeName]
    IN  [cache |-> [st.cache EXCEPT ![nodeName] = b],
         heap |-> [st.heap EXCEPT ![b] = MapperDelete(st.heap[b], namespace, svc)],
         age |-> [st.age EXCEPT ![nodeName] = 0]]

RECURSIVE mapDeletedServiceResult(_, _, _, _)
mapDeletedServiceResult(st, nodes, namespace, svc) ==
    IF nodes = <<>> THEN st
    ELSE IF st.cache[Head(nodes)] = NoBundle
         THEN st     \* line 236: "Nothing to delete", return nil
         ELSE mapDeletedServiceResult(
                  DeleteFromNode(st, Head(nodes), namespace, svc),
                  Tail(nodes), namespace, svc)

\* What nodeLister.List can return: the known nodes, in any order.
NodeLists ==
    { s \in SeqsUpTo(Nodes, Cardinality(Nodes)) :
        \A i, j \in 1..Len(s) : i # j => s[i] # s[j] }

\* The same when every node of the cluster is known to the lister.
ClusterNodeLists == { s \in NodeLists : Len(s) = Cardinality(Nodes) }

(***************************************************************************)
(* GetPodMetadataNames, lines 251-278: (metaList, error).                  *)
(***************************************************************************)
RECURSIVE SetToSeq(_)
SetToSeq(S) ==
    IF S = {} THEN <<>>
    ELSE LET x == CHOOSE y \in S : TRUE IN <<x>> \o SetToSeq(S \ {x})

\* GetPodMetadataNames reporting a missing entry or pod as an error.
GetPodMetadataNamesMissIsError(c, h, nodeName, ns, podName) ==
    IF c[nodeName] = NoBundle THEN [metaList |-> <<>>, err |-> TRUE]
    ELSE LET r == ServicesForPod(h[c[nodeName]], ns, podName)
             serviceList == SetToSeq(r.services)
         IN  IF ~r.found THEN [metaList |-> <<>>, err |-> TRUE]
             ELSE [metaList |-> [i \in 1..Len(serviceList) |->
                                    "kube_service:" \o serviceList[i]],
                   err |-> FALSE]

GetPodMetadataNames(c, h, nodeName, ns, podName) ==
    IF c[nodeName] = NoBundle THEN [metaList |-> <<>>, err |-> FALSE]
    ELSE IF c[nodeName] \notin BundleIds THEN [metaList |-> <<>>, err |-> TRUE]
    ELSE LET r == ServicesForPod(h[c[nodeName]], ns, podName)
             serviceList == SetToSeq(r.services)
         IN  IF ~r.found THEN [metaList |-> <<>>, err |-> FALSE]
             ELSE [metaList |-> [i \in 1..Len(serviceList) |->
                                    "kube_service:" \o serviceList[i]],
                   err |-> FALSE]

(***************************************************************************)
(* The reconciler called directly, one call at a time, as the unit test    *)
(* does: any endpoint object, any cleanup, and the cache's expiry.         *)
(***************************************************************************)
State == [cache |-> cache, heap |-> heap, age |-> age]

NoEndpoints == <<>>

(***************************************************************************)
(* Keys.  A key is the string "namespace/name", or "name" for an empty     *)
(* namespace; it is kept as the sequence of its parts between slashes.     *)
(***************************************************************************)
MetaNamespaceKey(namespace, name) ==
    IF namespace = "" THEN <<name>> ELSE <<namespace, name>>

\* cache.SplitMetaNamespaceKey: (namespace, name, err).
SplitMetaNamespaceKey(key) ==
    IF Len(key) = 1 THEN [Namespace |-> "", Name |-> key[1], err |-> FALSE]
    ELSE IF Len(key) = 2 THEN [Namespace |-> key[1], Name |-> key[2], err |-> FALSE]
    ELSE [Namespace |-> "", Name |-> "", err |-> TRUE]

\* What the informer hands to the handlers: an API object with its
\* metadata, or the tombstone cache.DeletedFinalStateUnknown{Key, Obj}.
ApiObject(kind, id) == [type |-> kind, Namespace |-> id.Namespace, Name |-> id.Name]

DeletedFinalStateUnknown(obj) ==
    [type |-> "DeletedFinalStateUnknown",
     Key |-> MetaNamespaceKey(obj.Namespace, obj.Name), Obj |-> obj]

\* cache.MetaNamespaceKeyFunc: the key of an object that has metadata; a
\* tombstone is neither an ExplicitKey nor an object with metadata.
MetaNamespaceKeyFunc(obj) ==
    IF obj.type = "DeletedFinalStateUnknown" THEN [key |-> <<>>, err |-> TRUE]
    ELSE [key |-> MetaNamespaceKey(obj.Namespace, obj.Name), err |-> FALSE]

(***************************************************************************)
(* The rate limiting work queue (client-go workqueue) as operations on the *)
(* record q of its fields.                                                 *)
(***************************************************************************)
Q ==
    [queue |-> queue, dirty |-> dirty, processing |-> processing,
     shuttingDown |-> shuttingDown, failures |-> failures, waiting |-> waiting]

InstallQ(q) ==
    /\ queue' = q.queue
    /\ dirty' = q.dirty
    /\ processing' = q.processing
    /\ shuttingDown' = q.shuttingDown
    /\ failures' = q.failures
    /\ waiting' = q.waiting

\* Add: dropped when shutting down or already dirty; a key being processed
\* is only marked dirty.
QAdd(q, item) ==
    IF q.shuttingDown \/ item \in q.dirty THEN q
    ELSE IF item \in q.processing THEN [q EXCEPT !.dirty = @ \cup {item}]
    ELSE [q EXCEPT !.dirty = @ \cup {item}, !.queue = Append(@, item)]

\* Get of the head item: it moves from dirty to processing.
QGet(q) ==
    [q EXCEPT !.queue = Tail(@), !.processing = @ \cup {Head(q.queue)},
              !.dirty = @ \ {Head(q.queue)}]

\* Done: a key marked dirty while it was processed is queued again.
QDone(q, item) ==
    IF item \in q.dirty
    THEN [q EXCEPT !.processing = @ \ {item}, !.queue = Append(@, item)]
    ELSE [q EXCEPT !.processing = @ \ {item}]

QForget(q, item) == [q EXCEPT !.failures[item] = 0]

QNumRequeues(q, item) == q.failures[item]

\* AddRateLimited: the limiter counts the requeue, AddAfter parks the key
\* until its delay has passed.
QAddRateLimited(q, item) ==
    IF q.shuttingDown THEN [q EXCEPT !.failures[item] = @ + 1]
    ELSE [q EXCEPT !.failures[item] = @ + 1, !.waiting = @ \cup {item}]

QShutDown(q) == [q EXCEPT !.shuttingDown = TRUE]

(***************************************************************************)
(* The event handlers, lines 114-151.                                      *)
(***************************************************************************)
enqueue(q, obj) ==
    LET r == MetaNamespaceKeyFunc(obj)
    IN  IF r.err THEN q ELSE QAdd(q, r.key)

addEndpoints(q, obj) == enqueue(q, obj)

updateEndpoints(q, old, new) == enqueue(q, new)

\* deleteEndpoints enqueueing the Key of any tombstone.
deleteEndpointsAnyTombstone(q, obj) ==
    IF obj.type = "Endpoints" THEN enqueue(q, obj)
    ELSE IF obj.type # "DeletedFinalStateUnknown" THEN q
    ELSE QAdd(q, obj.Key)

deleteEndpoints(q, obj) ==
    IF obj.type = "Endpoints" THEN enqueue(q, obj)
    ELSE IF obj.type # "DeletedFinalStateUnknown" THEN q
    ELSE IF obj.Obj.type # "Endpoints" THEN q
    ELSE enqueue(q, obj)

Workers == 1..numWorkers

\* lookup is what endpointsLister...Get(name) returned to reconcileKey
\* ("found", "notFound" or "error"), listErr whether nodeLister.List failed.
IdleWorker ==
    [pc |-> "idle", key |-> <<>>, todo |-> <<>>, nodeName |-> "",
     metaBundle |-> NoBundle, lookup |-> "", listErr |-> FALSE, err |-> FALSE]

IdleReader == [pc |-> "idle", metaBundle |-> NoBundle]

\* The bundles the workers ws, and the reader, hold in their local metaBundle.
HeldBy(ws) == ({ ws[w].metaBundle : w \in Workers } \cup {reader.metaBundle}) \ {NoBundle}

\* The cache state st becomes current; ws are the workers after the step.
InstallWith(st, ws) ==
    /\ cache' = st.cache
    /\ heap' = Collect(st.cache, st.heap, HeldBy(ws))
    /\ age' = st.age

Install(st) == InstallWith(st, workers)

\* The calls mapService(endpoints) over all endpoint objects, each as the
\* service name and the nodeToPods it computes first.
mapServiceCalls ==
    { [svc |-> endpoints.Name, nodeToPods |-> nodeToPods(endpoints)] :
        endpoints \in UNION { EndpointsOf(id) : id \in EndpointsIds } }

mapService(call) ==
    /\ Install(MapNodes(State, call.nodeToPods, call.svc))
    /\ UNCHANGED <<guard, controllerVars>>

mapDeletedService(nodes, namespace, svc) ==
    /\ Install(mapDeletedServiceResult(State, nodes, namespace, svc))
    /\ UNCHANGED <<guard, controllerVars>>

\* The node's entry leaves the cache (its TTL has run out; time is not
\* tracked where this action is used on its own).
Expire(nodeName) ==
    /\ cache[nodeName] # NoBundle
    /\ Install([cache |-> [cache EXCEPT ![nodeName] = NoBundle], heap |-> heap,
                age |-> [age EXCEPT ![nodeName] = 0]])
    /\ UNCHANGED <<guard, controllerVars>>

\* The expiry of the entry of a node when its TTL has run out.
TtlExpire(nodeName) ==
    /\ age[nodeName] = TtlPeriods
    /\ Expire(nodeName)

\* The ages after one more resync period.
Aged == [n \in Nodes |-> IF cache[n] = NoBundle THEN 0 ELSE age[n] + 1]

\* An entry whose TTL has run out is gone before time goes on.
NoneDue == \A n \in Nodes : cache[n] # NoBundle => age[n] < TtlPeriods

\* The state after NewMetadataController, over the watched objects ids.
InitOver(ids, canFail) ==
    /\ cache = [n \in Nodes |-> NoBundle]
    /\ heap = [b \in BundleIds |-> EmptyMap]
    /\ age = [n \in Nodes |-> 0]
    /\ guard = [b \in BundleIds |-> Unlocked]
    /\ reader = IdleReader
    /\ store = [id \in ids |-> NoEndpoints]
    /\ faulty = canFail
    /\ queue = <<>>
    /\ dirty = {}
    /\ processing = {}
    /\ shuttingDown = FALSE
    /\ failures = [key \in { MetaNamespaceKey(id.Namespace, id.Name) : id \in ids } |-> 0]
    /\ waiting = {}
    /\ workers = [w \in Workers |-> IdleWorker]
    /\ runpc = "WaitForCacheSync"
    /\ nodeListerSynced = FALSE
    /\ endpointsListerSynced = FALSE
    /\ stopCh = FALSE

Init == InitOver(EndpointsIds, FALSE)

(***************************************************************************)
(* The controller running against a small cluster: the informer's events,  *)
(* Run, and the worker goroutines, one action per step.                    *)
(***************************************************************************)
\* The versions of an endpoint object the watched cluster goes through.
ClusterEndpoints(id) ==
    { [Namespace |-> id.Namespace, Name |-> id.Name,
       Addresses |-> <<PodAddress("node1", id.Namespace, "podA")>>] }

\* What the informer can deliver for the deletion of the object id.
DeletePayloads(id) ==
    { ApiObject("Endpoints", id),
      DeletedFinalStateUnknown(ApiObject("Endpoints", id)),
      DeletedFinalStateUnknown(ApiObject("Pod", id)),
      ApiObject("Pod", id) }

InformerAdd(id, endpoints) ==
    /\ ~stopCh
    /\ store[id] = NoEndpoints
    /\ store' = [store EXCEPT ![id] = endpoints]
    /\ InstallQ(addEndpoints(Q, ApiObject("Endpoints", id)))
    /\ UNCHANGED <<cacheVars, reader, faulty, workers, runVars>>

\* An update, or the periodic resync of an unchanged object.
InformerUpdate(id, endpoints) ==
    /\ ~stopCh
    /\ store[id] # NoEndpoints
    /\ store' = [store EXCEPT ![id] = endpoints]
    /\ InstallQ(updateEndpoints(Q, ApiObject("Endpoints", id),
                                ApiObject("Endpoints", id)))
    /\ UNCHANGED <<cacheVars, reader, faulty, workers, runVars>>

InformerDelete(id, obj) ==
    /\ ~stopCh
    /\ store[id] # NoEndpoints
    /\ store' = [store EXCEPT ![id] = NoEndpoints]
    /\ InstallQ(deleteEndpoints(Q, obj))
    /\ UNCHANGED <<cacheVars, reader, faulty, workers, runVars>>

NodesSynced ==
    /\ ~nodeListerSynced
    /\ nodeListerSynced' = TRUE
    /\ UNCHANGED <<cacheVars, reader, store, faulty, queueVars, workers, runpc,
                   endpointsListerSynced, stopCh>>

EndpointsSynced ==
    /\ ~endpointsListerSynced
    /\ endpointsListerSynced' = TRUE
    /\ UNCHANGED <<cacheVars, reader, store, faulty, queueVars, workers, runpc,
                   nodeListerSynced, stopCh>>

Stop ==
    /\ ~stopCh
    /\ stopCh' = TRUE
    /\ UNCHANGED <<cacheVars, reader, store, faulty, queueVars, workers, runpc,
                   nodeListerSynced, endpointsListerSynced>>

\* The delayed add of a key parked by AddRateLimited.
DelayedAdd(key) ==
    /\ key \in waiting
    /\ InstallQ(QAdd([Q EXCEPT !.waiting = @ \ {key}], key))
    /\ UNCHANGED <<cacheVars, reader, store, faulty, workers, runVars>>

\* RunWaitForCacheSync waiting for the node lister only.
RunWaitForNodeSyncOnly ==
    /\ runpc = "WaitForCacheSync"
    /\ \/ /\ nodeListerSynced
          /\ runpc' = "startWorkers"
          /\ UNCHANGED queueVars
       \/ /\ stopCh
          /\ runpc' = "returned"
          /\ InstallQ(QShutDown(Q))
    /\ UNCHANGED <<cacheVars, reader, store, faulty, workers, nodeListerSynced,
                   endpointsListerSynced, stopCh>>

\* Run, lines 73-75: WaitForCacheSync returns true once both listers have
\* synced, false when stopCh is closed (and the deferred ShutDown runs).  When
\* both hold, either result is possible.
RunWaitForCacheSync ==
    /\ runpc = "WaitForCacheSync"
    /\ \/ /\ nodeListerSynced /\ endpointsListerSynced
          /\ runpc' = "startWorkers"
          /\ UNCHANGED queueVars
       \/ /\ stopCh
          /\ runpc' = "returned"
          /\ InstallQ(QShutDown(Q))
    /\ UNCHANGED <<cacheVars, reader, store, faulty, workers, nodeListerSynced,
                   endpointsListerSynced, stopCh>>

\* Run, lines 77-79: the worker goroutines are started.
RunStartWorkers ==
    /\ runpc = "startWorkers"
    /\ runpc' = "waitStop"
    /\ workers' = [w \in Workers |-> [workers[w] EXCEPT !.pc = "until"]]
    /\ UNCHANGED <<cacheVars, reader, store, faulty, queueVars, nodeListerSynced,
                   endpointsListerSynced, stopCh>>

\* RunStopped returning without the deferred ShutDown.
RunStoppedNoShutDown ==
    /\ runpc = "waitStop"
    /\ stopCh
    /\ runpc' = "returned"
    /\ UNCHANGED <<cacheVars, reader, store, faulty, queueVars, workers,
                   nodeListerSynced, endpointsListerSynced, stopCh>>

\* Run, line 81 and the deferred ShutDown of line 68.
RunStopped ==
    /\ runpc = "waitStop"
    /\ stopCh
    /\ runpc' = "returned"
    /\ InstallQ(QShutDown(Q))
    /\ UNCHANGED <<cacheVars, reader, store, faulty, workers, nodeListerSynced,
                   endpointsListerSynced, stopCh>>

\* wait.Until: the worker function is called unless stopCh is closed.
WorkerUntil(w) ==
    /\ workers[w].pc = "until"
    /\ workers' = [workers EXCEPT ![w].pc = IF stopCh THEN "exited" ELSE "get"]
    /\ UNCHANGED <<cacheVars, reader, store, faulty, queueVars, runVars>>

\* Dequeue calling Done(key) at once instead of deferring it.
DequeueDoneAtOnce(w) ==
    /\ workers[w].pc = "get"
    /\ \/ /\ queue # <<>>
          /\ InstallQ(QDone(QGet(Q), Head(queue)))
          /\ workers' = [workers EXCEPT ![w].pc = "reconcileKey",
                                        ![w].key = Head(queue)]
       \/ /\ queue = <<>> /\ shuttingDown
          /\ workers' = [workers EXCEPT ![w].pc = "exited"]
          /\ UNCHANGED queueVars
    /\ UNCHANGED <<cacheVars, reader, store, faulty, runVars>>

\* processNextWorkItem, lines 90-94: Get blocks on an empty queue until
\* shutdown; Done(key) is deferred to the return.
Dequeue(w) ==
    /\ workers[w].pc = "get"
    /\ \/ /\ queue # <<>>
          /\ InstallQ(QGet(Q))
          /\ workers' = [workers EXCEPT ![w].pc = "reconcileKey",
                                        ![w].key = Head(queue)]
       \/ /\ queue = <<>> /\ shuttingDown
          /\ workers' = [workers EXCEPT ![w].pc = "exited"]
          /\ UNCHANGED queueVars
    /\ UNCHANGED <<cacheVars, reader, store, faulty, runVars>>

\* reconcileKey, lines 154-170, up to the first loop iteration of the
\* function it dispatches to.
ReconcileKey(w) ==
    LET id == SplitMetaNamespaceKey(workers[w].key)
        ident == [Namespace |-> id.Namespace, Name |-> id.Name]
    IN
    /\ workers[w].pc = "reconcileKey"
    /\ \/ \* the key does not split
          /\ id.err
          /\ workers' = [workers EXCEPT ![w].pc = "return", ![w].err = TRUE]
       \/ \* the lister fails with an error other than not-found
          /\ ~id.err /\ faulty
          /\ workers' = [workers EXCEPT ![w].pc = "return",
                                        ![w].lookup = "error", ![w].err = TRUE]
       \/ \* found: mapService builds nodeToPods
          /\ ~id.err /\ ident \in DOMAIN store /\ store[ident] # NoEndpoints
          /\ LET todo == nodeToPods(store[ident])
             IN  workers' = [workers EXCEPT
                    ![w].pc = IF DOMAIN todo = {} THEN "return" ELSE "mapService",
                    ![w].lookup = "found", ![w].todo = todo]
       \/ \* not found: mapDeletedService lists the nodes
          /\ ~id.err /\ (ident \notin DOMAIN store \/ store[ident] = NoEndpoints)
          /\ \/ /\ faulty
                /\ workers' = [workers EXCEPT ![w].pc = "return",
                                              ![w].lookup = "notFound",
                                              ![w].listErr = TRUE, ![w].err = TRUE]
             \/ \E nodes \in ClusterNodeLists :
                     workers' = [workers EXCEPT
                        ![w].pc = IF nodes = <<>> THEN "return"
                                  ELSE "mapDeletedService",
                        ![w].lookup = "notFound", ![w].todo = nodes]
    /\ UNCHANGED <<cacheVars, reader, store, faulty, queueVars, runVars>>

\* mapService, lines 206-211: any node of nodeToPods next.
MapGetBundle(w) ==
    /\ workers[w].pc = "mapService"
    /\ \E nodeName \in DOMAIN workers[w].todo :
         LET ws == [workers EXCEPT
                      ![w].pc = "mapLock", ![w].nodeName = nodeName,
                      ![w].metaBundle =
                          GetOrNewBundle(cache, HeldBy(workers), nodeName)]
         IN  /\ workers' = ws
             /\ InstallWith(State, ws)
    /\ UNCHANGED <<guard, reader, store, faulty, queueVars, runVars>>

\* mapService, line 213: metaBundle.m.Lock() returns once no one holds the
\* lock of the bundle.
MapLock(w) ==
    LET b == workers[w].metaBundle
    IN
    /\ workers[w].pc = "mapLock"
    /\ guard[b] = Unlocked
    /\ guard' = [guard EXCEPT ![b] = w]
    /\ workers' = [workers EXCEPT ![w].pc = "mapSet"]
    /\ UNCHANGED <<cache, heap, age, reader, store, faulty, queueVars, runVars>>

\* MapSetServices leaving out the Unlock.
MapSetServicesKeepLock(w) ==
    LET b == workers[w].metaBundle
        pods == workers[w].todo[workers[w].nodeName]
        svc == SplitMetaNamespaceKey(workers[w].key).Name
    IN
    /\ workers[w].pc = "mapSet"
    /\ workers' = [workers EXCEPT ![w].pc = "mapCacheSet"]
    /\ heap' = [heap EXCEPT ![b] = SetServices(heap[b], pods, svc)]
    /\ UNCHANGED <<cache, age, guard, reader, store, faulty, queueVars, runVars>>

\* mapService, lines 214-217: Services.Set for every pair, then Unlock.
MapSetServices(w) ==
    LET b == workers[w].metaBundle
        pods == workers[w].todo[workers[w].nodeName]
        svc == SplitMetaNamespaceKey(workers[w].key).Name
    IN
    /\ workers[w].pc = "mapSet"
    /\ workers' = [workers EXCEPT ![w].pc = "mapCacheSet"]
    /\ heap' = [heap EXCEPT ![b] = SetServices(heap[b], pods, svc)]
    /\ guard' = [guard EXCEPT ![b] = Unlocked]
    /\ UNCHANGED <<cache, age, reader, store, faulty, queueVars, runVars>>

\* mapService, lines 219-221: Cache.Set, then the next node.
MapCacheSet(w) ==
    LET rest == MapRemove(workers[w].todo, workers[w].nodeName)
        ws == [workers EXCEPT
                 ![w].pc = IF DOMAIN rest = {} THEN "return" ELSE "mapService",
                 ![w].todo = rest, ![w].nodeName = "", ![w].metaBundle = NoBundle]
    IN
    /\ workers[w].pc = "mapCacheSet"
    /\ workers' = ws
    /\ InstallWith([cache |-> [cache EXCEPT ![workers[w].nodeName] =
                                                workers[w].metaBundle],
                    heap |-> heap,
                    age |-> [age EXCEPT ![workers[w].nodeName] = 0]], ws)
    /\ UNCHANGED <<guard, reader, store, faulty, queueVars, runVars>>

\* DelGetBundle returning an error for a node without a bundle.
DelGetBundleNoBundleIsError(w) ==
    LET nodeName == Head(workers[w].todo)
    IN
    /\ workers[w].pc = "mapDeletedService"
    /\ IF cache[nodeName] = NoBundle
       THEN workers' = [workers EXCEPT ![w].pc = "return", ![w].todo = <<>>,
                                       ![w].err = TRUE]
       ELSE workers' = [workers EXCEPT ![w].pc = "delLock",
                                       ![w].nodeName = nodeName,
                                       ![w].metaBundle = cache[nodeName]]
    /\ UNCHANGED <<cacheVars, reader, store, faulty, queueVars, runVars>>

\* mapDeletedService, lines 232-237: the next listed node.
DelGetBundle(w) ==
    LET nodeName == Head(workers[w].todo)
    IN
    /\ workers[w].pc = "mapDeletedService"
    /\ IF cache[nodeName] = NoBundle
       THEN workers' = [workers EXCEPT ![w].pc = "return", ![w].todo = <<>>]
       ELSE workers' = [workers EXCEPT ![w].pc = "delLock",
                                       ![w].nodeName = nodeName,
                                       ![w].metaBundle = cache[nodeName]]
    /\ UNCHANGED <<cacheVars, reader, store, faulty, queueVars, runVars>>

\* mapDeletedService, line 239: metaBundle.m.Lock().
DelLock(w) ==
    LET b == workers[w].metaBundle
    IN
    /\ workers[w].pc = "delLock"
    /\ guard[b] = Unlocked
    /\ guard' = [guard EXCEPT ![b] = w]
    /\ workers' = [workers EXCEPT ![w].pc = "delDelete"]
    /\ UNCHANGED <<cache, heap, age, reader, store, faulty, queueVars, runVars>>

\* mapDeletedService, lines 240-241: Services.Delete, then Unlock.
DelDeleteService(w) ==
    LET b == workers[w].metaBundle
        id == SplitMetaNamespaceKey(workers[w].key)
    IN
    /\ workers[w].pc = "delDelete"
    /\ workers' = [workers EXCEPT ![w].pc = "delCacheSet"]
    /\ heap' = [heap EXCEPT ![b] = MapperDelete(heap[b], id.Namespace, id.Name)]
    /\ guard' = [guard EXCEPT ![b] = Unlocked]
    /\ UNCHANGED <<cache, age, reader, store, faulty, queueVars, runVars>>

\* mapDeletedService, lines 243-245: Cache.Set, then the next node.
DelCacheSet(w) ==
    LET rest == Tail(workers[w].todo)
        ws == [workers EXCEPT
                 ![w].pc = IF rest = <<>> THEN "return" ELSE "mapDeletedService",
                 ![w].todo = rest, ![w].nodeName = "", ![w].metaBundle = NoBundle]
    IN
    /\ workers[w].pc = "delCacheSet"
    /\ workers' = ws
    /\ InstallWith([cache |-> [cache EXCEPT ![workers[w].nodeName] =
                                                workers[w].metaBundle],
                    heap |-> heap,
                    age |-> [age EXCEPT ![workers[w].nodeName] = 0]], ws)
    /\ UNCHANGED <<guard, reader, store, faulty, queueVars, runVars>>

\* HandleErr retrying while the count is at most maxRetries.
HandleErrOffByOne(q, key, err) ==
    IF ~err THEN QForget(q, key)
    ELSE IF QNumRequeues(q, key) <= maxRetries THEN QAddRateLimited(q, key)
    ELSE QForget(q, key)

\* processNextWorkItem, lines 96-111, what it does to the queue with the
\* result err of reconcileKey; the deferred Done follows in Return.
HandleErr(q, key, err) ==
    IF ~err THEN QForget(q, key)
    ELSE IF QNumRequeues(q, key) < maxRetries THEN QAddRateLimited(q, key)
    ELSE QForget(q, key)

\* Return leaving out the deferred Done(key).
ReturnWithoutDone(w) ==
    /\ workers[w].pc = "return"
    /\ InstallQ(HandleErr(Q, workers[w].key, workers[w].err))
    /\ workers' = [workers EXCEPT ![w] = [IdleWorker EXCEPT !.pc = "get"]]
    /\ UNCHANGED <<cacheVars, reader, store, faulty, runVars>>

\* processNextWorkItem returning: the queue calls and the deferred Done.
Return(w) ==
    /\ workers[w].pc = "return"
    /\ InstallQ(QDone(HandleErr(Q, workers[w].key, workers[w].err),
                      workers[w].key))
    /\ workers' = [workers EXCEPT ![w] = [IdleWorker EXCEPT !.pc = "get"]]
    /\ UNCHANGED <<cacheVars, reader, store, faulty, runVars>>

(***************************************************************************)
(* The read path, GetPodMetadataNames, as the steps of one caller.  A call *)
(* for a node without an entry returns at once and changes nothing.        *)
(***************************************************************************)
\* Lines 253-261: Cache.Get finds the node's bundle.
ReadCacheGet(nodeName) ==
    /\ reader.pc = "idle"
    /\ cache[nodeName] # NoBundle
    /\ reader' = [pc |-> "RLock", metaBundle |-> cache[nodeName]]
    /\ UNCHANGED <<cacheVars, store, faulty, queueVars, workers, runVars>>

\* ServicesForPod (line 267) takes the bundle's lock for reading.
ReadRLock ==
    /\ reader.pc = "RLock"
    /\ guard[reader.metaBundle] = Unlocked
    /\ guard' = [guard EXCEPT ![reader.metaBundle] = Reader]
    /\ reader' = [reader EXCEPT !.pc = "ServicesForPod"]
    /\ UNCHANGED <<cache, heap, age, store, faulty, queueVars, workers, runVars>>

\* ServicesForPod reads the mapper and releases the lock; lines 268-277
\* build the result.
ReadRUnlock ==
    /\ reader.pc = "ServicesForPod"
    /\ guard' = [guard EXCEPT ![reader.metaBundle] = Unlocked]
    /\ reader' = IdleReader
    /\ heap' = Collect(cache, heap,
                       { workers[w].metaBundle : w \in Workers } \ {NoBundle})
    /\ UNCHANGED <<cache, age, store, faulty, queueVars, workers, runVars>>

\* Cache expiry while the controller runs.
CacheExpire(nodeName) == Expire(nodeName)

Next ==
    \/ \E id \in DOMAIN store : \E e \in ClusterEndpoints(id) : InformerAdd(id, e)
    \/ \E id \in DOMAIN store : \E e \in ClusterEndpoints(id) : InformerUpdate(id, e)
    \/ \E id \in DOMAIN store : \E obj \in DeletePayloads(id) : InformerDelete(id, obj)
    \/ NodesSynced
    \/ EndpointsSynced
    \/ Stop
    \/ \E key \in waiting : DelayedAdd(key)
    \/ RunWaitForCacheSync
    \/ RunStartWorkers
    \/ RunStopped
    \/ \E w \in Workers :
         \/ WorkerUntil(w)
         \/ Dequeue(w)
         \/ ReconcileKey(w)
         \/ MapGetBundle(w)
         \/ MapLock(w)
         \/ MapSetServices(w)
         \/ MapCacheSet(w)
         \/ DelGetBundle(w)
         \/ DelLock(w)
         \/ DelDeleteService(w)
         \/ DelCacheSet(w)
         \/ Return(w)
    \/ \E nodeName \in Nodes : CacheExpire(nodeName)

\* The whole controller watching one endpoint object, with listers that
\* can fail.
Spec == InitOver({[Namespace |-> "foo", Name |-> "svc1"]}, TRUE) /\ [][Next]_vars

\* The goroutines are scheduled: Run and each worker take their next step
\* when they can.  Nothing is assumed of the informer's events, the delayed
\* adds and the cache's expiry.
RunNext == RunWaitForCacheSync \/ RunStartWorkers \/ RunStopped

WorkerNext(w) ==
    \/ WorkerUntil(w)
    \/ Dequeue(w)
    \/ ReconcileKey(w)
    \/ MapGetBundle(w)
    \/ MapLock(w)
    \/ MapSetServices(w)
    \/ MapCacheSet(w)
    \/ DelGetBundle(w)
    \/ DelLock(w)
    \/ DelDeleteService(w)
    \/ DelCacheSet(w)
    \/ Return(w)

SpecLive ==
    /\ Spec
    /\ WF_vars(RunNext)
    /\ \A w \in Workers : WF_vars(WorkerNext(w))

NextReconciler ==
    \/ \E call \in mapServiceCalls : mapService(call)
    \/ \E id \in EndpointsIds : \E nodes \in NodeLists :
           mapDeletedService(nodes, id.Namespace, id.Name)
    \/ \E nodeName \in Nodes : Expire(nodeName)

SpecReconciler == Init /\ [][NextReconciler]_vars

(***************************************************************************)
(* Two endpoint objects reconciled by the two workers: both objects in the *)
(* store, both keys queued, the workers waiting in Get, and the node       *)
(* either without a cache entry or with the bundle an earlier              *)
(* reconciliation of svc1 left.  Only resyncs arrive, nothing expires and  *)
(* no lister fails.                                                        *)
(***************************************************************************)
RaceIds ==
    { [Namespace |-> "foo", Name |-> "svc1"],
      [Namespace |-> "foo", Name |-> "svc2"] }

InitRace ==
    /\ \/ /\ cache = [n \in Nodes |-> NoBundle]
          /\ heap = [b \in BundleIds |-> EmptyMap]
       \/ /\ cache = [n \in Nodes |-> IF n = "node1" THEN 1 ELSE NoBundle]
          /\ heap = [b \in BundleIds |->
                       IF b = 1 THEN MapperSet(EmptyMap, "foo", "podA", "svc1")
                       ELSE EmptyMap]
    /\ age = [n \in Nodes |-> 0]
    /\ guard = [b \in BundleIds |-> Unlocked]
    /\ reader = IdleReader
    /\ store = [id \in RaceIds |-> CHOOSE e \in ClusterEndpoints(id) : TRUE]
    /\ faulty = FALSE
    /\ queue \in { <<<<"foo", "svc1">>, <<"foo", "svc2">>>>,
                   <<<<"foo", "svc2">>, <<"foo", "svc1">>>> }
    /\ dirty = { <<"foo", "svc1">>, <<"foo", "svc2">> }
    /\ processing = {}
    /\ shuttingDown = FALSE
    /\ failures = [key \in { <<"foo", "svc1">>, <<"foo", "svc2">> } |-> 0]
    /\ waiting = {}
    /\ workers = [w \in Workers |-> [IdleWorker EXCEPT !.pc = "get"]]
    /\ runpc = "waitStop"
    /\ nodeListerSynced = TRUE
    /\ endpointsListerSynced = TRUE
    /\ stopCh = FALSE

NextRace ==
    \/ \E id \in DOMAIN store : \E e \in ClusterEndpoints(id) : InformerUpdate(id, e)
    \/ \E w \in Workers :
         \/ Dequeue(w)
         \/ ReconcileKey(w)
         \/ MapGetBundle(w)
         \/ MapLock(w)
         \/ MapSetServices(w)
         \/ MapCacheSet(w)
         \/ Return(w)

SpecRace == InitRace /\ [][NextRace]_vars

(***************************************************************************)
(* Properties.                                                             *)
(***************************************************************************)
MapperOf(st, nodeName) ==
    IF st.cache[nodeName] = NoBundle THEN EmptyMap
    ELSE st.heap[st.cache[nodeName]]

\* The services of a pod in the node's bundle; none when there is no entry.
ServicesOf(st, nodeName, ns, podName) ==
    ServicesForPod(MapperOf(st, nodeName), ns, podName).services

\* The (node, namespace, pod) of the addresses of an object that are valid.
ValidRefs(endpoints) ==
    { <<endpoints.Addresses[i].NodeName[1],
        endpoints.Addresses[i].TargetRef.Namespace,
        endpoints.Addresses[i].TargetRef.Name>> :
        i \in { j \in 1..Len(endpoints.Addresses) :
                  ~IgnoredAddress(endpoints.Addresses[j]) } }

AllEndpoints == UNION { EndpointsOf(id) : id \in EndpointsIds }

\* C1: whatever the cache holds, after mapService of an endpoint object
\* every valid address of the object has the object's service in its set
\* (none is left out), and every service that was in a set before is still
\* there (merge, never overwrite): over a sequence of add/update events the
\* bundle holds the union of the services that referenced each address.
C1_MergeIsUnion ==
    \A endpoints \in AllEndpoints :
        LET st2 == mapServiceResult(State, endpoints)
        IN  /\ \A r \in ValidRefs(endpoints) :
                   endpoints.Name \in ServicesOf(st2, r[1], r[2], r[3])
            /\ \A n \in Nodes, ns \in Namespaces, p \in Pods :
                   ServicesOf(State, n, ns, p) \subseteq ServicesOf(st2, n, ns, p)

\* C2: when the node listing succeeds, after the cleanup of a deleted
\* object every listed node that had a bundle has no pod of the namespace
\* with the service in its set and no pod with an empty set, and a listed
\* node without a bundle does not stop the cleanup of the nodes after it.
C2_CleanupReachesEveryListedNode ==
    \A id \in EndpointsIds, nodes \in NodeLists :
        LET st2 == mapDeletedServiceResult(State, nodes, id.Namespace, id.Name)
        IN  \A i \in 1..Len(nodes) :
                cache[nodes[i]] # NoBundle =>
                    LET m2 == MapperOf(st2, nodes[i])
                    IN  id.Namespace \in DOMAIN m2 =>
                            \A p \in DOMAIN m2[id.Namespace] :
                                /\ id.Name \notin m2[id.Namespace][p]
                                /\ m2[id.Namespace][p] # {}

\* Whether the mapper m has the service under the namespace.
References(m, namespace, svc) ==
    namespace \in DOMAIN m /\ \E p \in DOMAIN m[namespace] : svc \in m[namespace][p]

\* C3: the cleanup of a deleted object creates and removes no cache entry,
\* leaves the mapper of every bundle that does not reference the service
\* as it is, and in the others changes nothing under another namespace and
\* no other service name.
C3_CleanupFrame ==
    \A id \in EndpointsIds, nodes \in NodeLists :
        LET st2 == mapDeletedServiceResult(State, nodes, id.Namespace, id.Name)
        IN  /\ st2.cache = cache
            /\ \A n \in Nodes :
                 LET m == MapperOf(State, n)
                     m2 == MapperOf(st2, n)
                 IN  /\ ~References(m, id.Namespace, id.Name) => m2 = m
                     /\ DOMAIN m2 \subseteq DOMAIN m
                     /\ \A ns \in DOMAIN m \ {id.Namespace} :
                            ns \in DOMAIN m2 /\ m2[ns] = m[ns]
                     /\ \A p \in Pods :
                            ServicesOf(State, n, id.Namespace, p) \ {id.Name}
                                = ServicesOf(st2, n, id.Namespace, p) \ {id.Name}

\* C3 witness: node1 maps foo/podA to svc1 and svc2 and bar/podA to svc1,
\* node2 has a bundle that never referenced foo/svc1, and the cleanup of
\* foo/svc1 leaves exactly svc2 for foo/podA on node1.
C3_Witness ==
    /\ ServicesOf(State, "node1", "foo", "podA") = {"svc1", "svc2"}
    /\ ServicesOf(State, "node1", "bar", "podA") = {"svc1"}
    /\ cache["node2"] # NoBundle
    /\ ~References(MapperOf(State, "node2"), "foo", "svc1")
    /\ ServicesOf(mapDeletedServiceResult(State, <<"node2", "node1">>, "foo", "svc1"),
                  "node1", "foo", "podA") = {"svc2"}

\* C4: in every cache state the read path returns no error; it returns no
\* list for a node without an entry and for a pod the node's bundle does
\* not know, and one kube_service:<name> per service of a pod it knows.
C4_LookupNotFoundIsNoError ==
    \A n \in Nodes, ns \in Namespaces, p \in Pods :
        LET r == GetPodMetadataNames(cache, heap, n, ns, p)
            m == MapperOf(State, n)
            known == cache[n] # NoBundle /\ ns \in DOMAIN m /\ p \in DOMAIN m[ns]
        IN  /\ ~r.err
            /\ ~known => r.metaList = <<>>
            /\ known =>
                 /\ Len(r.metaList) = Cardinality(m[ns][p])
                 /\ { r.metaList[i] : i \in 1..Len(r.metaList) }
                        = { "kube_service:" \o svc : svc \in m[ns][p] }

\* C4 witness: node2 has no entry, node1 knows foo/podA with two services
\* and does not know foo/podB.
C4_Witness ==
    /\ cache["node2"] = NoBundle
    /\ ServicesOf(State, "node1", "foo", "podA") = {"svc1", "svc2"}
    /\ ~ServicesForPod(MapperOf(State, "node1"), "foo", "podB").found
    /\ Len(GetPodMetadataNames(cache, heap, "node1", "foo", "podA").metaList) = 2

\* The step in which worker w leaves processNextWorkItem.
ReturnStep(w) == workers[w].pc = "return" /\ workers'[w].pc = "get"

\* C5 as stated: the failure that makes the count of failures of the key
\* equal to maxRetries drops it (counter cleared, not parked for a retry).
C5_DroppedAtCeilingthFailure ==
    [][\A w \in Workers :
         (ReturnStep(w) /\ workers[w].err
            /\ failures[workers[w].key] + 1 = maxRetries)
         => (failures'[workers[w].key] = 0 /\ waiting' = waiting)]_vars

\* C5 amended: each of the first maxRetries failures of a key counts one
\* requeue and parks the key for a rate limited retry; the failure after
\* maxRetries requeues drops it (counter cleared, not parked), so a key is
\* retried at most maxRetries times.
C5_DroppedAfterCeilingRetries ==
    /\ [](\A key \in DOMAIN failures : failures[key] <= maxRetries)
    /\ [][\A w \in Workers :
            (ReturnStep(w) /\ workers[w].err) =>
               IF failures[workers[w].key] < maxRetries
               THEN /\ failures'[workers[w].key] = failures[workers[w].key] + 1
                    /\ shuttingDown \/ workers[w].key \in waiting'
               ELSE /\ failures'[workers[w].key] = 0
                    /\ waiting' = waiting]_vars

\* C5 witness: a reconciliation has failed with maxRetries requeues counted.
C5_Witness ==
    \E w \in Workers :
        /\ workers[w].pc = "return" /\ workers[w].err
        /\ failures[workers[w].key] = maxRetries

\* A worker between its Get and its Done.
InFlight(w) ==
    workers[w].pc \in { "reconcileKey", "mapService", "mapLock", "mapSet",
                        "mapCacheSet", "mapDeletedService", "delLock",
                        "delDelete", "delCacheSet", "return" }

\* C6: no two workers are reconciling the same key, and the keys in flight
\* are the keys the queue is processing: none of them is in the queue.
C6_OneInFlightPerKey ==
    /\ \A w1, w2 \in Workers :
         (w1 # w2 /\ InFlight(w1) /\ InFlight(w2)) => workers[w1].key # workers[w2].key
    /\ \A w \in Workers :
         InFlight(w) =>
            /\ workers[w].key \in processing
            /\ \A i \in 1..Len(queue) : queue[i] # workers[w].key

\* C6 witness: the key in flight was enqueued again (it is dirty) and the
\* other worker waits in Get on the empty queue.
C6_Witness ==
    \E w1, w2 \in Workers :
        /\ w1 # w2
        /\ InFlight(w1) /\ workers[w1].key \in dirty
        /\ workers[w2].pc = "get" /\ queue = <<>>

\* Both queued keys have been reconciled and nothing is pending.
Quiescent ==
    /\ queue = <<>> /\ dirty = {} /\ processing = {} /\ waiting = {}
    /\ \A w \in Workers : workers[w].pc = "get"

\* C7: after the reconciliations of svc1 and svc2, run by the two workers,
\* have completed, the bundle of node1 holds both services for foo/podA.
C7_BothContributionsKept ==
    Quiescent => ServicesOf(State, "node1", "foo", "podA") = {"svc1", "svc2"}

\* C8: a delete notification carrying a tombstone that wraps the endpoint
\* object enqueues the key of the object.
C8_TombstoneEnqueuesKey ==
    [][\A id \in DOMAIN store :
         InformerDelete(id, DeletedFinalStateUnknown(ApiObject("Endpoints", id)))
         => MetaNamespaceKey(id.Namespace, id.Name) \in dirty']_vars

\* C9: from any cache state, reconciling a service with one pod on a node
\* and then its update listing that pod and a second pod of the namespace
\* on the node, in either order, gives a bundle that is exactly the earlier
\* mapper with the service merged into both pods.
C9_PodAddedToExistingService ==
    \A id \in EndpointsIds, n \in Nodes, p \in Pods, q \in Pods :
        p # q =>
          \A addrs \in { <<PodAddress(n, id.Namespace, p), PodAddress(n, id.Namespace, q)>>,
                         <<PodAddress(n, id.Namespace, q), PodAddress(n, id.Namespace, p)>> } :
            LET first == [Namespace |-> id.Namespace, Name |-> id.Name,
                          Addresses |-> <<PodAddress(n, id.Namespace, p)>>]
                update == [Namespace |-> id.Namespace, Name |-> id.Name,
                           Addresses |-> addrs]
                st2 == mapServiceResult(mapServiceResult(State, first), update)
            IN  MapperOf(st2, n) =
                    MapperSet(MapperSet(MapperOf(State, n), id.Namespace, p, id.Name),
                              id.Namespace, q, id.Name)

\* A worker that has not entered its loop.
NotStarted(w) == workers[w].pc \in {"idle", "until", "exited"}

\* C10: a worker goroutine exists only once both listers have synced; once
\* stopCh is closed with no worker loop entered, none is ever entered; and
\* Run returns from WaitForCacheSync only with stopCh closed.
C10_NoWorkerBeforeSync ==
    /\ [](\A w \in Workers :
            workers[w].pc # "idle" => nodeListerSynced /\ endpointsListerSynced)
    /\ []((stopCh /\ ~(nodeListerSynced /\ endpointsListerSynced))
            => \A w \in Workers : workers[w].pc = "idle")
    /\ [][(stopCh /\ \A w \in Workers : NotStarted(w))
            => (\A w \in Workers : NotStarted(w))']_vars

\* C10 witness: stopCh closed before both listers synced, Run has returned
\* without starting a worker, and the listers synced afterwards.
C10_Witness ==
    /\ runpc = "returned" /\ stopCh
    /\ nodeListerSynced /\ endpointsListerSynced
    /\ \A w \in Workers : workers[w].pc = "idle"

\* The keys of the endpoint object the controller of Spec watches.
SpecKeys == { <<"foo", "svc1">> }

\* Every worker goroutine that was started has returned.
WorkersExited == \A w \in Workers : workers[w].pc \in {"idle", "exited"}

\* C11: the queue is shut down only once stopCh is closed; once stopCh is
\* closed, Run returns, the queue is shut down and every worker that was
\* started exits; a worker leaves Get without a key only when the queue is
\* shut down and empty (which releases a worker blocked on the empty queue),
\* and a worker that has exited stays so.
C11_StopTerminatesWorkers ==
    /\ [](shuttingDown => stopCh)
    /\ stopCh ~> (runpc = "returned" /\ shuttingDown /\ WorkersExited)
    /\ [][\A w \in Workers :
            /\ (workers[w].pc = "get" /\ workers'[w].pc = "exited")
                  => (shuttingDown /\ queue = <<>>)
            /\ workers[w].pc = "exited" => workers'[w].pc = "exited"]_vars

\* C11 witness: after the stop both workers, started and once in Get, have
\* exited, with a reconciliation that failed on the way (its key was
\* counted by the rate limiter) and the queue drained.
C11_Witness ==
    /\ stopCh /\ shuttingDown /\ runpc = "returned"
    /\ \A w \in Workers : workers[w].pc = "exited"
    /\ queue = <<>> /\ processing = {}
    /\ \E key \in SpecKeys : failures[key] > 0

\* C13: a key enqueued again while it is in flight (processing and dirty)
\* is handed to a worker again after the reconciliation in flight is done:
\* it is processing and no longer dirty, which only a later Get brings
\* about.
C13_RenotifiedKeyReconciledAgain ==
    \A key \in SpecKeys :
        (key \in processing /\ key \in dirty)
            ~> (key \in processing /\ key \notin dirty)

\* C13 witness: a reconciliation that failed is about to return while its
\* key was notified again.
C13_Witness ==
    \E w \in Workers :
        /\ workers[w].pc = "return" /\ workers[w].err
        /\ workers[w].key \in dirty /\ workers[w].key \in processing

\* C14: reconcileKey returns an error exactly when the key does not split,
\* the store lookup failed with an error other than not-found, or the
\* object was not found and the node listing failed; mapService and the
\* loop of mapDeletedService set no error, whatever the cache holds; and a
\* reconciliation that returns no error is acked: the key's requeue count
\* is cleared and the key is not parked for a retry.
C14_FailureExactlyOnListerError ==
    /\ [](\A w \in Workers :
            /\ workers[w].pc = "return" =>
                  (workers[w].err <=>
                     \/ SplitMetaNamespaceKey(workers[w].key).err
                     \/ workers[w].lookup = "error"
                     \/ workers[w].lookup = "notFound" /\ workers[w].listErr)
            /\ (InFlight(w) /\ workers[w].pc \notin {"reconcileKey", "return"}) =>
                  (~workers[w].err /\ ~workers[w].listErr
                     /\ workers[w].lookup \in {"found", "notFound"}))
    /\ [][\A w \in Workers :
            (ReturnStep(w) /\ ~workers[w].err) =>
                (failures'[workers[w].key] = 0 /\ waiting' = waiting)]_vars

\* C14 witness: the object was not found, the nodes were listed, no node
\* has a bundle, and the reconciliation returns success after an earlier
\* failure of the key.
C14_Witness ==
    \E w \in Workers :
        /\ workers[w].pc = "return" /\ ~workers[w].err
        /\ workers[w].lookup = "notFound" /\ ~workers[w].listErr
        /\ \A n \in Nodes : cache[n] = NoBundle
        /\ failures[workers[w].key] > 0

\* The positions of the valid addresses of the object on the node with a
\* pod of the namespace.
ValidAt(endpoints, n, ns) ==
    { i \in 1..Len(endpoints.Addresses) :
        /\ ~IgnoredAddress(endpoints.Addresses[i])
        /\ endpoints.Addresses[i].NodeName[1] = n
        /\ endpoints.Addresses[i].TargetRef.Namespace = ns }

\* The pod of the last of these addresses.
LastPod(endpoints, n, ns) ==
    LET last == CHOOSE i \in ValidAt(endpoints, n, ns) :
                    \A j \in ValidAt(endpoints, n, ns) : j <= i
    IN  endpoints.Addresses[last].TargetRef.Name

\* C15: whatever the cache holds, one pass of mapService over an object adds
\* the object's name to the set of exactly one pod per node and namespace
\* of its valid addresses, the pod of the last such address; the entry of
\* every other pod, the earlier pods of that node and namespace included,
\* is after the pass what it was before (absent if it was absent).
C15_LastAddressWins ==
    \A endpoints \in AllEndpoints :
        LET st2 == mapServiceResult(State, endpoints)
        IN  \A n \in Nodes, ns \in Namespaces, p \in Pods :
                LET before == ServicesForPod(MapperOf(State, n), ns, p)
                    after == ServicesForPod(MapperOf(st2, n), ns, p)
                IN  IF ValidAt(endpoints, n, ns) # {} /\ LastPod(endpoints, n, ns) = p
                    THEN /\ after.found
                         /\ after.services = before.services \cup {endpoints.Name}
                    ELSE after = before

\* C15 witness: node1 maps foo/podA to svc2 and knows no foo/podB; mapping
\* svc1 with the addresses of podA and then podB on node1 gives svc1 to
\* podB only.
C15_Witness ==
    LET endpoints == [Namespace |-> "foo", Name |-> "svc1",
                      Addresses |-> <<PodAddress("node1", "foo", "podA"),
                                      PodAddress("node1", "foo", "podB")>>]
        st2 == mapServiceResult(State, endpoints)
    IN  /\ ServicesOf(State, "node1", "foo", "podA") = {"svc2"}
        /\ ~ServicesForPod(MapperOf(State, "node1"), "foo", "podB").found
        /\ ServicesOf(st2, "node1", "foo", "podA") = {"svc2"}
        /\ ServicesOf(st2, "node1", "foo", "podB") = {"svc1"}

\* C16: in every reachable state, after any sequence of mapService calls,
\* cleanups and expiries, the mapper of every bundle has, under every
\* namespace it holds, at least one pod, and for every pod it holds a set
\* of services that is not empty.
C16_NoEmptyEntries ==
    \A b \in BundleIds :
        \A ns \in DOMAIN heap[b] :
            /\ DOMAIN heap[b][ns] # {}
            /\ \A p \in DOMAIN heap[b][ns] : heap[b][ns][p] # {}

\* C16 witness: the cleanups have removed the last service of every pod of
\* node1, whose bundle is still cached with nothing in it, while the
\* bundle of node2 keeps foo/podA with svc2 after losing svc1.
C16_Witness ==
    /\ cache["node1"] # NoBundle /\ heap[cache["node1"]] = EmptyMap
    /\ cache["node2"] # NoBundle
    /\ heap[cache["node2"]] = MapperSet(EmptyMap, "foo", "podA", "svc2")

(***************************************************************************)
(* Convergence.  One endpoint object that no longer changes: the cache     *)
(* holds what the reconciliation of an earlier version left, the store the *)
(* current version, and the key of the update is queued.  Time passes in   *)
(* resync periods; at each the informer redelivers the object, and an      *)
(* entry not written for TtlPeriods periods expires.                       *)
(***************************************************************************)
ConvergeId == [Namespace |-> "foo", Name |-> "svc1"]

ConvergeAddresses ==
    { PodAddress("node1", "foo", "podA"), PodAddress("node1", "foo", "podB"),
      PodAddress("node2", "foo", "podA"),
      [TargetRef |-> PodRef("foo", "podB"), NodeName |-> <<>>] }

ConvergeVersions ==
    { [Namespace |-> ConvergeId.Namespace, Name |-> ConvergeId.Name, Addresses |-> a] :
        a \in SeqsUpTo(ConvergeAddresses, MaxAddrs) }

InitConverge ==
    \E earlier \in ConvergeVersions, current \in ConvergeVersions :
        LET key == MetaNamespaceKey(ConvergeId.Namespace, ConvergeId.Name)
            st == mapServiceResult([cache |-> [n \in Nodes |-> NoBundle],
                                    heap |-> [b \in BundleIds |-> EmptyMap],
                                    age |-> [n \in Nodes |-> 0]], earlier)
        IN  /\ cache = st.cache
            /\ heap = st.heap
            /\ age = st.age
            /\ guard = [b \in BundleIds |-> Unlocked]
            /\ reader = IdleReader
            /\ store = [id \in {ConvergeId} |-> current]
            /\ faulty = FALSE
            /\ queue = <<key>>
            /\ dirty = {key}
            /\ processing = {}
            /\ shuttingDown = FALSE
            /\ failures = [k \in {key} |-> 0]
            /\ waiting = {}
            /\ workers = [w \in Workers |-> [IdleWorker EXCEPT !.pc = "get"]]
            /\ runpc = "waitStop"
            /\ nodeListerSynced = TRUE
            /\ endpointsListerSynced = TRUE
            /\ stopCh = FALSE

\* The informer's resync: updateEndpoints for every object of the store.
RECURSIVE ResyncFrom(_, _)
ResyncFrom(q, ids) ==
    IF ids = {} THEN q
    ELSE LET id == CHOOSE x \in ids : TRUE
         IN  ResyncFrom(updateEndpoints(q, ApiObject("Endpoints", id),
                                        ApiObject("Endpoints", id)),
                        ids \ {id})

\* A resync period has passed: the keys of the last one have been
\* reconciled, the entries are one period older and the informer redelivers
\* the objects it holds.
Resync ==
    /\ Quiescent
    /\ NoneDue
    /\ age' = Aged
    /\ InstallQ(ResyncFrom(Q, { id \in DOMAIN store : store[id] # NoEndpoints }))
    /\ UNCHANGED <<cache, heap, guard, reader, store, faulty, workers, runVars>>

NextConverge ==
    \/ Resync
    \/ \E w \in Workers :
         \/ Dequeue(w)
         \/ ReconcileKey(w)
         \/ MapGetBundle(w)
         \/ MapLock(w)
         \/ MapSetServices(w)
         \/ MapCacheSet(w)
         \/ Return(w)
    \/ \E nodeName \in Nodes : TtlExpire(nodeName)

\* Time goes on, the workers are scheduled and the cache expires its
\* entries when they are due.
SpecConverge ==
    /\ InitConverge
    /\ [][NextConverge]_vars
    /\ WF_vars(Resync)
    /\ \A w \in Workers : WF_vars(WorkerNext(w))
    /\ \A nodeName \in Nodes : WF_vars(TtlExpire(nodeName))

\* No bundle maps a pod to a service whose current object has no valid
\* address of that pod on that node.
NoStaleEntry ==
    \A n \in Nodes, ns \in Namespaces, p \in Pods :
        \A svc \in ServicesOf(State, n, ns, p) :
            \E id \in DOMAIN store :
                /\ store[id] # NoEndpoints
                /\ id.Name = svc
                /\ <<n, ns, p>> \in ValidRefs(store[id])

\* C12: with the object no longer changing, the reconciliations scheduled,
\* the resync periods passing and the entries expiring when due, the cache
\* eventually reports, and keeps reporting, a service for a pod on a node
\* only if the current object has that address: an address an update
\* removed is eventually no longer reported.
C12_RemovedAddressEventuallyUnmapped == <>[]NoStaleEntry

\* An address with a target reference of kind Pod, a pod name, a namespace
\* and a node name.
UsableAddress(a) ==
    /\ ~a.TargetRef.isNil /\ a.TargetRef.Kind = "Pod"
    /\ a.TargetRef.Name # "" /\ a.TargetRef.Namespace # ""
    /\ Len(a.NodeName) = 1

\* The (node, namespace, pod) of the usable addresses of an object.
UsableRefs(endpoints) ==
    { <<endpoints.Addresses[i].NodeName[1],
        endpoints.Addresses[i].TargetRef.Namespace,
        endpoints.Addresses[i].TargetRef.Name>> :
        i \in { j \in 1..Len(endpoints.Addresses) :
                  UsableAddress(endpoints.Addresses[j]) } }

\* C17: whatever the cache holds and however old its entries are, one pass
\* of mapService over an object (run from a state in which no other
\* goroutine is inside the reconciler) changes the entry of no pod that is not
\* the pod of a usable address of the object, and a node with no usable
\* address in the object keeps its cache entry (or its absence), its
\* mapper and the age of its entry: no write and no TTL refresh; the nodes
\* of the usable addresses are written, with their TTL refreshed.
C17_IgnoredAddressesHaveNoEffect ==
    \A endpoints \in AllEndpoints :
        LET st2 == mapServiceResult(State, endpoints)
            touched == { r[1] : r \in UsableRefs(endpoints) }
        IN  HeldBy(workers) = {} =>
            /\ \A n \in Nodes \ touched :
                   /\ st2.cache[n] = cache[n]
                   /\ st2.age[n] = age[n]
                   /\ MapperOf(st2, n) = MapperOf(State, n)
            /\ \A n \in touched : st2.cache[n] # NoBundle /\ st2.age[n] = 0
            /\ \A n \in Nodes, ns \in Namespaces \cup {""}, p \in Pods \cup {""} :
                   <<n, ns, p>> \notin UsableRefs(endpoints) =>
                       ServicesForPod(MapperOf(st2, n), ns, p)
                           = ServicesForPod(MapperOf(State, n), ns, p)

\* C17 witness: the entry of node1 is one resync period old and node2 has
\* none; mapping an object with an address without target reference on
\* node1 and a usable address on node2 writes node2 and leaves node1's
\* entry, its mapper and its age as they are.
C17_Witness ==
    LET endpoints == [Namespace |-> "foo", Name |-> "svc2",
                      Addresses |-> <<[TargetRef |-> NilRef, NodeName |-> <<"node1">>],
                                      PodAddress("node2", "foo", "podA")>>]
        st2 == mapServiceResult(State, endpoints)
    IN  /\ HeldBy(workers) = {}
        /\ cache["node1"] # NoBundle /\ age["node1"] = 1
        /\ cache["node2"] = NoBundle
        /\ st2.cache["node1"] = cache["node1"] /\ st2.age["node1"] = 1
        /\ MapperOf(st2, "node1") = MapperOf(State, "node1")
        /\ ServicesOf(st2, "node2", "foo", "podA") = {"svc2"}

\* C18: whatever the cache holds, mapping an object a second time leaves
\* the mapper of every node as the first mapping left it, and cleaning up
\* a deleted object a second time (the lister returning all the nodes each
\* time, in whatever order) leaves the mapper of every node as the first
\* cleanup left it.
C18_ReconcileTwiceIsOnce ==
    /\ \A endpoints \in AllEndpoints :
          LET st1 == mapServiceResult(State, endpoints)
              st2 == mapServiceResult(st1, endpoints)
          IN  \A n \in Nodes : MapperOf(st2, n) = MapperOf(st1, n)
    /\ \A id \in EndpointsIds, first \in ClusterNodeLists, second \in ClusterNodeLists :
          LET st1 == mapDeletedServiceResult(State, first, id.Namespace, id.Name)
              st2 == mapDeletedServiceResult(st1, second, id.Namespace, id.Name)
          IN  \A n \in Nodes : MapperOf(st2, n) = MapperOf(st1, n)

\* The delete payloads that are no endpoint object and no tombstone of one,
\* and those no key can be extracted from.
MalformedPayloads(id) ==
    { obj \in DeletePayloads(id) :
        \/ obj.type \notin {"Endpoints", "DeletedFinalStateUnknown"}
        \/ obj.type = "DeletedFinalStateUnknown" /\ obj.Obj.type # "Endpoints"
        \/ MetaNamespaceKeyFunc(obj).err }

\* C19: a delete notification with a malformed payload leaves the queue,
\* its dirty and processing sets, the requeue counts and the keys parked
\* for a retry as they are, whatever the state of the queue.
C19_MalformedDeleteLeavesQueue ==
    [][\A id \in DOMAIN store : \A obj \in MalformedPayloads(id) :
          InformerDelete(id, obj) => UNCHANGED queueVars]_vars

\* C19 witness: the object is gone from the store, nothing is queued,
\* dirty, processed or parked, and the bundle of node1 still holds the
\* service: no cleanup was ever queued for the deletion.
C19_Witness ==
    /\ \A id \in DOMAIN store : store[id] = NoEndpoints
    /\ queue = <<>> /\ dirty = {} /\ processing = {} /\ waiting = {}
    /\ \A w \in Workers : workers[w].pc = "get"
    /\ ~shuttingDown
    /\ \A n \in Nodes : cache[n] # NoBundle => age[n] = 0
    /\ ServicesOf(State, "node1", "foo", "podA") = {"svc1"}

(***************************************************************************)
(* The bundle locks under contention: the two endpoint objects of the race *)
(* scenario, both mapping the cached bundle of node1, with their keys      *)
(* queued; the objects can be deleted while the two workers reconcile      *)
(* their keys, and a reader looks pods up again and again.                 *)
(***************************************************************************)
InitGuard ==
    /\ cache = [n \in Nodes |-> IF n = "node1" THEN 1 ELSE NoBundle]
    /\ heap = [b \in BundleIds |->
                 IF b = 1 THEN MapperSet(EmptyMap, "foo", "podA", "svc1")
                 ELSE EmptyMap]
    /\ age = [n \in Nodes |-> 0]
    /\ guard = [b \in BundleIds |-> Unlocked]
    /\ reader = IdleReader
    /\ store = [id \in RaceIds |-> CHOOSE e \in ClusterEndpoints(id) : TRUE]
    /\ faulty = FALSE
    /\ queue = <<<<"foo", "svc1">>, <<"foo", "svc2">>>>
    /\ dirty = { <<"foo", "svc1">>, <<"foo", "svc2">> }
    /\ processing = {}
    /\ shuttingDown = FALSE
    /\ failures = [key \in { <<"foo", "svc1">>, <<"foo", "svc2">> } |-> 0]
    /\ waiting = {}
    /\ workers = [w \in Workers |-> [IdleWorker EXCEPT !.pc = "get"]]
    /\ runpc = "waitStop"
    /\ nodeListerSynced = TRUE
    /\ endpointsListerSynced = TRUE
    /\ stopCh = FALSE

NextGuard ==
    \/ \E id \in DOMAIN store : InformerDelete(id, ApiObject("Endpoints", id))
    \/ \E w \in Workers :
         \/ Dequeue(w)
         \/ ReconcileKey(w)
         \/ MapGetBundle(w)
         \/ MapLock(w)
         \/ MapSetServices(w)
         \/ MapCacheSet(w)
         \/ DelGetBundle(w)
         \/ DelLock(w)
         \/ DelDeleteService(w)
         \/ DelCacheSet(w)
         \/ Return(w)
    \/ \E nodeName \in Nodes : ReadCacheGet(nodeName)
    \/ ReadRLock
    \/ ReadRUnlock

\* The goroutines are scheduled, and a goroutine waiting for a lock gets it
\* when it is released again and again (the locks of package sync hand
\* over to a starving waiter).
SpecGuard ==
    /\ InitGuard
    /\ [][NextGuard]_vars
    /\ \A w \in Workers :
         WF_vars(WorkerNext(w)) /\ SF_vars(MapLock(w)) /\ SF_vars(DelLock(w))
    /\ SF_vars(ReadRLock)
    /\ WF_vars(ReadRUnlock)

\* The locks the goroutine h holds.
GuardsOf(h) == { b \in BundleIds : guard[b] = h }

====
